---- MODULE Spec2Model ----
(***************************************************************************)
(* A model of statement_reader.py: the two statement extractors            *)
(* chase_statement_extract and schwab_statement_extract.                   *)
(*                                                                         *)
(* A word of a page is the text of one tuple of page.get_text('words'),    *)
(* modelled as the sequence of its characters (one-character strings), so  *)
(* that replace(), slicing, lower(), int() and float() are computed on     *)
(* the characters as Python computes them.  None is the empty tuple and a  *)
(* value v that is not None is the one-element tuple <<v>>.                *)
(***************************************************************************)
EXTENDS Integers, Sequences, FiniteSets, TLC

\* ------------------------------------------------------------------------
\* Python values
\* ------------------------------------------------------------------------

None == <<>>

Some(v) == <<v>>

Digits == {"0", "1", "2", "3", "4", "5", "6", "7", "8", "9"}

\* str.isdigit() of one character
IsDigit(c) == c \in Digits

UpperLetters ==
  <<"A", "B", "C", "D", "E", "F", "G", "H", "I", "J", "K", "L", "M",
    "N", "O", "P", "Q", "R", "S", "T", "U", "V", "W", "X", "Y", "Z">>

LowerLetters ==
  <<"a", "b", "c", "d", "e", "f", "g", "h", "i", "j", "k", "l", "m",
    "n", "o", "p", "q", "r", "s", "t", "u", "v", "w", "x", "y", "z">>

LowerChar(c) ==
  IF \E k \in 1..26 : UpperLetters[k] = c
  THEN LowerLetters[CHOOSE k \in 1..26 : UpperLetters[k] = c]
  ELSE c

\* str.lower()
Lower(t) == [k \in 1..Len(t) |-> LowerChar(t[k])]

\* str.replace(c, '') for a one-character c
Remove(t, c) == SelectSeq(t, LAMBDA x : x # c)

\* t[-n:]
LastChars(t, n) == IF Len(t) <= n THEN t ELSE SubSeq(t, Len(t) - n + 1, Len(t))

\* t[:-1]
DropLast(t) == IF Len(t) = 0 THEN t ELSE SubSeq(t, 1, Len(t) - 1)

\* sub in t
Contains(sub, t) ==
  \E k \in 0..(Len(t) - Len(sub)) : SubSeq(t, k + 1, k + Len(sub)) = sub

AllDigits(t) == \A k \in 1..Len(t) : IsDigit(t[k])

DigitVal(c) == CHOOSE n \in 0..9 : <<"0", "1", "2", "3", "4", "5", "6", "7", "8", "9">>[n + 1] = c

RECURSIVE DigitsVal(_)
DigitsVal(t) ==
  IF Len(t) = 0 THEN 0
  ELSE 10 * DigitsVal(DropLast(t)) + DigitVal(t[Len(t)])

\* t without a leading sign
Unsigned(t) == IF Len(t) > 0 /\ t[1] \in {"+", "-"} THEN Tail(t) ELSE t

IsNegative(t) == Len(t) > 0 /\ t[1] = "-"

\* int(t): None when int() raises ValueError, the number otherwise.  The
\* words of the model hold no white space, no underscore and no digit
\* outside 0-9, the other spellings int() accepts.
ParseInt(t) ==
  LET u == Unsigned(t) IN
  IF Len(u) = 0 \/ ~AllDigits(u) THEN None
  ELSE Some(IF IsNegative(t) THEN 0 - DigitsVal(u) ELSE DigitsVal(u))

\* the digits of a fraction without its trailing zeros
RECURSIVE StripZeros(_)
StripZeros(t) ==
  IF Len(t) > 0 /\ t[Len(t)] = "0" THEN StripZeros(DropLast(t)) ELSE t

\* the place of the first '.' of t, 0 when there is none
PointAt(t) ==
  IF \E k \in 1..Len(t) : t[k] = "."
  THEN CHOOSE k \in 1..Len(t) : t[k] = "." /\ \A j \in 1..(k - 1) : t[j] # "."
  ELSE 0

\* float(t): None when float() raises ValueError; otherwise the number, as
\* its sign, its integer part and the digits of its fraction (the decimal
\* the word spells; two words spell the same float exactly when these
\* agree).  The words of the model hold no exponent, no inf or nan, no
\* white space and no underscore, the other spellings float() accepts.
ParseFloat(t) ==
  LET u  == Unsigned(t)
      p  == PointAt(u)
      ip == IF p = 0 THEN u ELSE SubSeq(u, 1, p - 1)
      fp == IF p = 0 THEN <<>> ELSE SubSeq(u, p + 1, Len(u))
      iv == DigitsVal(ip)
      fr == StripZeros(fp)
  IN
  IF ~AllDigits(ip) \/ ~AllDigits(fp) \/ Len(ip) + Len(fp) = 0 THEN None
  ELSE Some([neg |-> IsNegative(t) /\ (iv # 0 \/ Len(fr) > 0), int |-> iv, frac |-> fr])

\* ------------------------------------------------------------------------
\* The literals of the two extractors
\* ------------------------------------------------------------------------

W_Acct == <<"A", "c", "c", "t">>

W_Statement == <<"S", "t", "a", "t", "e", "m", "e", "n", "t">>

W_Period == <<"P", "e", "r", "i", "o", "d", ":">>

W_TOTAL == <<"T", "O", "T", "A", "L">>

W_ACCOUNT == <<"A", "C", "C", "O", "U", "N", "T">>

W_VALUE == <<"V", "A", "L", "U", "E">>

W_ShortTerm == <<"S", "h", "o", "r", "t", "-", "T", "e", "r", "m">>

W_LongTerm == <<"L", "o", "n", "g", "-", "T", "e", "r", "m">>

W_Net == <<"N", "e", "t">>

W_Gain == <<"G", "a", "i", "n">>

W_Ending == <<"E", "n", "d", "i", "n", "g">>

W_Value == <<"V", "a", "l", "u", "e">>

W_ST == <<"(", "S", "T", ")">>

W_LT == <<"(", "L", "T", ")">>

\* class Months(Enum): the member names and their values
Months ==
  <<[name |-> <<"j", "a", "n", "u", "a", "r", "y">>, value |-> <<"0", "1">>],
    [name |-> <<"f", "e", "b", "r", "u", "a", "r", "y">>, value |-> <<"0", "2">>],
    [name |-> <<"m", "a", "r", "c", "h">>, value |-> <<"0", "3">>],
    [name |-> <<"a", "p", "r", "i", "l">>, value |-> <<"0", "4">>],
    [name |-> <<"m", "a", "y">>, value |-> <<"0", "5">>],
    [name |-> <<"j", "u", "n", "e">>, value |-> <<"0", "6">>],
    [name |-> <<"j", "u", "l", "y">>, value |-> <<"0", "7">>],
    [name |-> <<"a", "u", "g", "u", "s", "t">>, value |-> <<"0", "8">>],
    [name |-> <<"s", "e", "p", "t", "e", "m", "b", "e", "r">>, value |-> <<"0", "9">>],
    [name |-> <<"o", "c", "t", "o", "b", "e", "r">>, value |-> <<"1", "0">>],
    [name |-> <<"n", "o", "v", "e", "m", "b", "e", "r">>, value |-> <<"1", "1">>],
    [name |-> <<"d", "e", "c", "e", "m", "b", "e", "r">>, value |-> <<"1", "2">>]>>

\* Months[name].value: None when the lookup raises KeyError
MonthValue(name) ==
  IF \E k \in 1..Len(Months) : Months[k].name = name
  THEN Some(Months[CHOOSE k \in 1..Len(Months) : Months[k].name = name].value)
  ELSE None

\* ------------------------------------------------------------------------
\* What the two extractors share in shape
\* ------------------------------------------------------------------------

\* the record a new account gets (lines 91-94 and 222-225)
NewRecord ==
  [date |-> None, prev_period_val |-> None, cur_period_val |-> None,
   short_net |-> None, short_net_YTD |-> None,
   long_net |-> None, long_net_YTD |-> None]

NumericSlots ==
  {"prev_period_val", "cur_period_val", "short_net", "short_net_YTD",
   "long_net", "long_net_YTD"}

\* statement_data[key] = {...}
PutRecord(data, key) ==
  [k \in DOMAIN data \cup {key} |-> IF k = key THEN NewRecord ELSE data[k]]

\* statement_data[acc] does not raise KeyError (acc is None or a word)
HasKey(data, acc) == acc # None /\ acc[1] \in DOMAIN data

\* ret[j + 1][4] == lits[1] and ret[j + 2][4] == lits[2] ..., evaluated left
\* to right inside a try: "raise" when an index is past the end of the page
\* (IndexError), "miss" at the first word that differs, "match" otherwise
RECURSIVE Context(_, _, _)
Context(r, j, lits) ==
  IF Len(lits) = 0 THEN "match"
  ELSE IF j + 1 > Len(r) THEN "raise"
  ELSE IF r[j + 1] # Head(lits) THEN "miss"
  ELSE Context(r, j + 1, Tail(lits))

\* the value word as the code hands it to float(): word.replace('$', '')
StripValue(word) == Remove(word, "$")

\* WriteSlots with an except that sets the slot whose value failed to None
RECURSIVE WriteSlotsClearing(_, _, _)
WriteSlotsClearing(data, acc, writes) ==
  IF Len(writes) = 0 THEN [data |-> data, raised |-> FALSE]
  ELSE
    LET f == ParseFloat(Head(writes)[2]) IN
    IF ~HasKey(data, acc) THEN [data |-> data, raised |-> TRUE]
    ELSE IF f = None
    THEN [data |-> [data EXCEPT ![acc[1]] = [@ EXCEPT ![Head(writes)[1]] = None]],
          raised |-> TRUE]
    ELSE WriteSlotsClearing([data EXCEPT ![acc[1]] = [@ EXCEPT ![Head(writes)[1]] = f]],
                            acc, Tail(writes))

\* statement_data[acc][slot] = float(word), for each <<slot, word>> of
\* writes in turn, inside a try.  The right-hand side is evaluated before
\* the subscript, and the assignments already done stay done when a later
\* one raises (ValueError of float, KeyError of statement_data[acc]).
RECURSIVE WriteSlots(_, _, _)
WriteSlots(data, acc, writes) ==
  IF Len(writes) = 0 THEN [data |-> data, raised |-> FALSE]
  ELSE
    LET f == ParseFloat(Head(writes)[2]) IN
    IF f = None \/ ~HasKey(data, acc) THEN [data |-> data, raised |-> TRUE]
    ELSE WriteSlots([data EXCEPT ![acc[1]] = [@ EXCEPT ![Head(writes)[1]] = f]],
                    acc, Tail(writes))

WritePair(data, acc, slot1, v1, slot2, v2) ==
  WriteSlots(data, acc, << <<slot1, v1>>, <<slot2, v2>> >>)

\* ------------------------------------------------------------------------
\* chase_statement_extract: one iteration of the loop over the words
\* s holds the variables of the function, r is ret and j the place of the
\* word (ret[j + n][4] of the code is r[j + n])
\* ------------------------------------------------------------------------

\* ChaseAccount without the test of line 90: the anchor of a known key puts
\* a new record in the place of the old one
ChaseAccountAlwaysNew(s, r, j) ==
  IF ~Contains(W_Acct, r[j]) THEN s
  ELSE IF j + 2 > Len(r) THEN [s EXCEPT !.acc_number = None]
  ELSE
    LET acc == LastChars(Remove(r[j + 2], ")"), 4) IN
    IF ParseInt(acc) = None THEN [s EXCEPT !.acc_number = None]
    ELSE IF ParseInt(acc)[1] = 0 THEN [s EXCEPT !.acc_number = Some(acc)]
    ELSE [s EXCEPT !.acc_number = Some(acc),
                   !.page_flag = TRUE,
                   !.statement_data = PutRecord(@, acc)]

\* lines 81-96: the account number of the page
ChaseAccount(s, r, j) ==
  IF ~Contains(W_Acct, r[j]) THEN s
  ELSE IF j + 2 > Len(r) THEN [s EXCEPT !.acc_number = None]
  ELSE
    LET acc == LastChars(Remove(r[j + 2], ")"), 4) IN
    IF ParseInt(acc) = None THEN [s EXCEPT !.acc_number = None]
    ELSE IF ParseInt(acc)[1] = 0 THEN [s EXCEPT !.acc_number = Some(acc)]
    ELSE [s EXCEPT !.acc_number = Some(acc),
                   !.page_flag = TRUE,
                   !.statement_data =
                      IF acc \in DOMAIN s.statement_data THEN @ ELSE PutRecord(@, acc)]

\* ChaseDateWanted without the test of date: every Statement is a candidate
ChaseDateWantedAlways(date, text) == text = W_Statement

\* line 103: the date is looked for while there is none
ChaseDateWanted(date, text) == date = None /\ text = W_Statement

\* lines 103-113: the statement ending date
ChaseDate(s, r, j) ==
  IF ~ChaseDateWanted(s.date, r[j]) THEN s
  ELSE
    LET c == Context(r, j, <<W_Period>>) IN
    IF c = "miss" THEN s
    ELSE IF c = "raise" \/ j + 7 > Len(r) THEN [s EXCEPT !.date = None]
    ELSE
      LET month == MonthValue(Lower(r[j + 2]))
          day   == DropLast(r[j + 6])
          year  == r[j + 7]
      IN
      IF month = None \/ ParseInt(day) = None THEN [s EXCEPT !.date = None]
      ELSE IF ParseInt(day)[1] = 0 THEN s
      ELSE IF ParseInt(year) = None THEN [s EXCEPT !.date = None]
      ELSE IF ParseInt(year)[1] = 0 THEN s
      ELSE [s EXCEPT !.date = Some(year \o <<"-">> \o month[1] \o <<"-">> \o day)]

\* ChaseTotalContext without the test of VALUE
ChaseTotalContextShort == <<W_ACCOUNT>>

\* line 118: the words that must follow TOTAL
ChaseTotalContext == <<W_ACCOUNT, W_VALUE>>

\* ChaseTotal with the two values taken in the other order (the current
\* value first, as in the schwab layout)
ChaseTotalSwapped(s, r, j) ==
  IF ~(s.cur_period_value = None /\ r[j] = W_TOTAL) THEN s
  ELSE
    LET c == Context(r, j, ChaseTotalContext) IN
    IF c = "miss" THEN s
    ELSE IF c = "raise" \/ j + 4 > Len(r) THEN [s EXCEPT !.cur_period_value = None]
    ELSE
      LET w == WritePair(s.statement_data, s.acc_number,
                         "prev_period_val", StripValue(r[j + 4]),
                         "cur_period_val", StripValue(r[j + 3]))
      IN [s EXCEPT !.statement_data = w.data,
                   !.cur_period_value =
                      IF w.raised THEN None ELSE Some(StripValue(r[j + 3]))]

\* lines 116-124: the previous period value and the current value
ChaseTotal(s, r, j) ==
  IF ~(s.cur_period_value = None /\ r[j] = W_TOTAL) THEN s
  ELSE
    LET c == Context(r, j, ChaseTotalContext) IN
    IF c = "miss" THEN s
    ELSE IF c = "raise" \/ j + 4 > Len(r) THEN [s EXCEPT !.cur_period_value = None]
    ELSE
      LET w == WritePair(s.statement_data, s.acc_number,
                         "prev_period_val", StripValue(r[j + 3]),
                         "cur_period_val", StripValue(r[j + 4]))
      IN [s EXCEPT !.statement_data = w.data,
                   !.cur_period_value =
                      IF w.raised THEN None ELSE Some(StripValue(r[j + 4]))]

\* lines 129 and 140: the words that must follow Short-Term and Long-Term
ChaseGainContext == <<W_Net, W_Gain>>

\* lines 127-135: the short term gains
ChaseShort(s, r, j) ==
  IF ~(s.short_term_net_gains = None /\ r[j] = W_ShortTerm) THEN s
  ELSE
    LET c == Context(r, j, ChaseGainContext) IN
    IF c = "miss" THEN s
    ELSE IF c = "raise" \/ j + 6 > Len(r) THEN [s EXCEPT !.short_term_net_gains = None]
    ELSE
      LET w == WritePair(s.statement_data, s.acc_number,
                         "short_net", StripValue(r[j + 5]),
                         "short_net_YTD", StripValue(r[j + 6]))
      IN [s EXCEPT !.statement_data = w.data,
                   !.short_term_net_gains =
                      IF w.raised THEN None ELSE Some(StripValue(r[j + 5]))]

\* lines 138-146: the long term gains
ChaseLong(s, r, j) ==
  IF ~(s.long_term_net_gains = None /\ r[j] = W_LongTerm) THEN s
  ELSE
    LET c == Context(r, j, ChaseGainContext) IN
    IF c = "miss" THEN s
    ELSE IF c = "raise" \/ j + 6 > Len(r) THEN [s EXCEPT !.long_term_net_gains = None]
    ELSE
      LET w == WritePair(s.statement_data, s.acc_number,
                         "long_net", StripValue(r[j + 5]),
                         "long_net_YTD", StripValue(r[j + 6]))
      IN [s EXCEPT !.statement_data = w.data,
                   !.long_term_net_gains =
                      IF w.raised THEN None ELSE Some(StripValue(r[j + 5]))]

\* ChaseFields without the test of page_flag (line 99)
ChaseFieldsUnflagged(s, r, j) ==
  ChaseLong(ChaseShort(ChaseTotal(ChaseDate(s, r, j), r, j), r, j), r, j)

\* lines 99-146: what is tried once the page is flagged
ChaseFields(s, r, j) ==
  IF s.page_flag
  THEN ChaseLong(ChaseShort(ChaseTotal(ChaseDate(s, r, j), r, j), r, j), r, j)
  ELSE s

\* lines 77-146: the body of the loop over the words of a page
ChaseIteration(s, r, j) == ChaseFields(ChaseAccount(s, r, j), r, j)

\* ChasePageStart with acc_number and page_flag declared before the loop over
\* the pages: the scope of one page runs on into the next
ChasePageStartKeepScope(s) ==
  [s EXCEPT !.cur_period_value = None,
            !.short_term_net_gains = None, !.long_term_net_gains = None]

\* ChasePageStart with cur_period_value declared before the loop over the
\* pages: the TOTAL of one page closes the field for the pages behind it
ChasePageStartKeepValue(s) ==
  [s EXCEPT !.acc_number = None, !.short_term_net_gains = None,
            !.long_term_net_gains = None, !.page_flag = FALSE]

\* lines 68-74: the variables declared anew for each page
ChasePageStart(s) ==
  [s EXCEPT !.cur_period_value = None, !.acc_number = None,
            !.short_term_net_gains = None, !.long_term_net_gains = None,
            !.page_flag = FALSE]

\* ChaseFixDates without the loop of lines 150-152
ChaseFixDatesSkipped(data, date) == data

\* lines 150-152: the date of each entry
ChaseFixDates(data, date) ==
  [k \in DOMAIN data |->
     IF data[k].date = None THEN [data[k] EXCEPT !.date = date] ELSE data[k]]

\* ------------------------------------------------------------------------
\* schwab_statement_extract: one iteration of the loop over the words
\* ------------------------------------------------------------------------

\* line 214: text[0] raises IndexError on an empty word; it is evaluated
\* only while acc_number is None (or empty), outside any try
SchwabRaises(s, r, j) == s.acc_number = None /\ Len(r[j]) = 0

\* lines 215-218: the digits of the word
DigitCount(word) == Cardinality({k \in 1..Len(word) : IsDigit(word[k])})

\* the account number taken from every word that qualifies
SchwabAccountEveryWord(s, r, j) ==
  IF ~IsDigit(r[j][1]) \/ DigitCount(r[j]) # 8 THEN s
  ELSE [s EXCEPT !.acc_number = Some(LastChars(r[j], 4)),
                 !.statement_data = PutRecord(@, LastChars(r[j], 4))]

\* lines 214-225: the account number, while there is none
SchwabAccount(s, r, j) ==
  IF s.acc_number # None \/ ~IsDigit(r[j][1]) \/ DigitCount(r[j]) # 8 THEN s
  ELSE [s EXCEPT !.acc_number = Some(LastChars(r[j], 4)),
                 !.statement_data = PutRecord(@, LastChars(r[j], 4))]

\* lines 237-243: the digits counted from the end of day, up to the first
\* '-'; a character that is neither is passed over
RECURSIVE TrailingDigits(_)
TrailingDigits(day) ==
  IF Len(day) = 0 \/ day[Len(day)] = "-" THEN 0
  ELSE (IF IsDigit(day[Len(day)]) THEN 1 ELSE 0) + TrailingDigits(DropLast(day))

\* line 244: day[num_counter:], num_counter being minus the count
SchwabDay(day) ==
  IF TrailingDigits(day) = 0 THEN day ELSE LastChars(day, TrailingDigits(day))

\* line 229: the date is looked for while year is None
SchwabDateWanted(year) == year = None

\* lines 229-249: the statement ending date
SchwabDate(s, r, j) ==
  IF ~SchwabDateWanted(s.year) THEN s
  ELSE
    LET month == MonthValue(Lower(r[j])) IN
    IF month = None \/ j + 2 > Len(r) THEN [s EXCEPT !.year = None]
    ELSE IF ~HasKey(s.statement_data, s.acc_number) THEN [s EXCEPT !.year = None]
    ELSE
      LET day == SchwabDay(Remove(r[j + 1], ",")) IN
      [s EXCEPT !.year = Some(r[j + 2]),
                !.statement_data[s.acc_number[1]].date =
                   Some(r[j + 2] \o <<"-">> \o month[1] \o <<"-">> \o day)]

\* lines 252-260: the previous period value and the current value
SchwabEnding(s, r, j) ==
  IF ~(s.cur_period_value = None /\ r[j] = W_Ending) THEN s
  ELSE
    LET c == Context(r, j, <<W_Value>>) IN
    IF c = "miss" THEN s
    ELSE IF c = "raise" \/ j + 3 > Len(r) THEN [s EXCEPT !.cur_period_value = None]
    ELSE
      LET w == WritePair(s.statement_data, s.acc_number,
                         "prev_period_val", StripValue(r[j + 3]),
                         "cur_period_val", StripValue(r[j + 2]))
      IN [s EXCEPT !.statement_data = w.data,
                   !.cur_period_value =
                      IF w.raised THEN None ELSE Some(StripValue(r[j + 2]))]

\* lines 263-276: the short and long term gains
SchwabGains(s, r, j) ==
  IF ~(s.short_term_net_gains = None /\ r[j] = W_ST) THEN s
  ELSE
    LET c == Context(r, j, <<W_LT, W_ShortTerm>>) IN
    IF c = "miss" THEN s
    ELSE IF c = "raise" \/ j + 24 > Len(r) THEN [s EXCEPT !.short_term_net_gains = None]
    ELSE
      LET w == WriteSlots(s.statement_data, s.acc_number,
                          << <<"short_net", StripValue(r[j + 13])>>,
                             <<"short_net_YTD", StripValue(r[j + 21])>>,
                             <<"long_net", StripValue(r[j + 16])>>,
                             <<"long_net_YTD", StripValue(r[j + 24])>> >>)
      IN [s EXCEPT !.statement_data = w.data,
                   !.short_term_net_gains =
                      IF w.raised THEN None ELSE Some(StripValue(r[j + 13]))]

\* lines 210-276: the body of the loop over the words, when line 214 does
\* not raise
SchwabIteration(s, r, j) ==
  SchwabGains(SchwabEnding(SchwabDate(SchwabAccount(s, r, j), r, j), r, j), r, j)

\* lines 199-207: the variables declared anew for each page
SchwabPageStart(s) ==
  [s EXCEPT !.cur_period_value = None, !.short_term_net_gains = None]

\* ------------------------------------------------------------------------
\* The documents: the words page.get_text('words', sort=True) returns
\* ------------------------------------------------------------------------

\* the pages of a document read before the model stops reading
MaxPages == 2

\* the fragments a page is put together from
MaxFrags == 3

RECURSIVE FragSeqs(_, _)
FragSeqs(F, n) ==
  IF n = 0 THEN {<<>>}
  ELSE LET shorter == FragSeqs(F, n - 1)
       IN shorter \cup {p \o f : p \in shorter, f \in F}

\* chase: account anchors.  ScopeA and ScopeB hold valid keys (1234, 5678),
\* ScopeBad a key int() refuses, ScopeZero a key that is 0, ScopeCut an
\* anchor with nothing of its own behind it
ScopeA == <<W_Acct, <<"#">>, <<"1", "2", "3", "4", ")">>>>

ScopeB == <<W_Acct, <<"#">>, <<"8", "5", "6", "7", "8", ")">>>>

ScopeBad == <<W_Acct, <<"#">>, <<"a", "b", "c", "d", ")">>>>

ScopeZero == <<W_Acct, <<"#">>, <<"0", "0", "0", "0", ")">>>>

ScopeCut == <<W_Acct>>

KeyA == <<"1", "2", "3", "4">>

KeyB == <<"5", "6", "7", "8">>

\* chase: TOTAL ACCOUNT VALUE with its two values
Total(prev, cur) == <<W_TOTAL, W_ACCOUNT, W_VALUE, prev, cur>>

V100 == <<"$", "1", "0", "0", ".", "0", "0">>

V150 == <<"$", "1", "5", "0", ".", "0", "0">>

V200 == <<"2", "0", "0">>

V300 == <<"$", "3", "0", "0", ".", "5">>

VPlain == <<"1", "2", "3", "4", "5", ".", "6", "7">>

VComma == <<"$", "1", "2", ",", "3", "4", "5", ".", "6", "7">>

VNA == <<"N", "/", "A">>

Total1 == Total(V100, V150)

Total2 == Total(V200, V300)

TotalPlain == Total(VPlain, V150)

TotalComma == Total(VComma, V150)

TotalNA == Total(VNA, V150)

TotalHalf == Total(V100, VNA)

\* TOTAL without ACCOUNT VALUE behind it, and TOTAL ACCOUNT SUMMARY with two
\* values behind it
TotalCut == <<W_TOTAL>>

TotalBadContext == <<W_TOTAL, W_ACCOUNT, <<"S", "U", "M", "M", "A", "R", "Y">>, V200, V300>>

\* chase: Statement Period: <month> <day> - <month> <day>, <year>
Period(month, day, year) ==
  <<W_Statement, W_Period, month, <<"0", "1">>, <<"-">>, month, day, year>>

Date1 == Period(<<"A", "u", "g", "u", "s", "t">>, <<"3", "1", ",">>, <<"2", "0", "2", "4">>)

Date2 == Period(<<"S", "e", "p", "t", "e", "m", "b", "e", "r">>, <<"3", "0", ",">>, <<"2", "0", "2", "4">>)

DateBadDay == Period(<<"A", "u", "g", "u", "s", "t">>, <<"x", "x", ",">>, <<"2", "0", "2", "4">>)

DateZeroDay == Period(<<"A", "u", "g", "u", "s", "t">>, <<"0", ",">>, <<"2", "0", "2", "4">>)

DateBadContext == <<W_Statement, <<"o", "f">>>>

\* Statement with nothing of its own behind it
DateCut == <<W_Statement>>

\* chase: Short-Term / Long-Term Net Gain with the two values
Gain(anchor, net, ytd) ==
  <<anchor, W_Net, W_Gain, <<"/">>, <<"(", "L", "o", "s", "s", ")">>, net, ytd>>

V5 == <<"$", "5", ".", "0", "0">>

V7 == <<"-", "7", ".", "2", "5">>

Short1 == Gain(W_ShortTerm, V5, V7)

Long1 == Gain(W_LongTerm, V7, V5)

ShortBadContext == <<W_ShortTerm, <<"R", "e", "a", "l", "i", "z", "e", "d">>>>

\* Long-Term Net with nothing of its own behind it
LongBadContext == <<W_LongTerm, W_Net>>

\* Short-Term Net Gain with nothing of its own behind it, and an anchor of
\* account B whose key word has no closing parenthesis, with a value behind
\* it
ShortOpen == <<W_ShortTerm, W_Net, W_Gain>>

ScopeBOpen == <<W_Acct, <<"#">>, KeyB, V5>>

LookaheadFamily == {ScopeA \o ShortOpen, ScopeBOpen}

\* an anchor whose key word holds a sign
ScopeSigned == <<W_Acct, <<"#">>, <<"-", "1", "2", "3", ")">>>>

KeySigned == <<"-", "1", "2", "3">>

\* a statement of two accounts whose pages each hold one account with its
\* values; account B comes with two different pairs of values
OrderFamily == {ScopeA \o Total1, ScopeB \o Total1, ScopeB \o Total2}

\* the kinds of chase statement: each is the set of fragments its pages are
\* put together from
ChaseFamilies ==
  { {ScopeA, ScopeB, Total1, ScopeB \o Total2},
    {ScopeA, ScopeBad, ScopeZero, Total1},
    {ScopeA, ScopeCut, Total1},
    {ScopeA, TotalPlain, TotalComma, TotalNA},
    {ScopeA, TotalHalf, Total1},
    {ScopeA, TotalCut, TotalBadContext, Total1},
    {ScopeA, ScopeB, Date1, Date2},
    {ScopeA, Date1, DateBadDay, DateZeroDay},
    {ScopeA, Date1, DateBadContext, DateCut},
    {ScopeA, Short1, Long1, LongBadContext},
    {ScopeA, Short1, ShortBadContext, Total1},
    OrderFamily,
    LookaheadFamily,
    {ScopeSigned, Total1} }

\* schwab: account numbers (eight digits), an empty word
SAcct1 == <<<<"1", "2", "3", "4", "-", "5", "6", "7", "8">>>>

SAcct2 == <<<<"8", "7", "6", "5", "-", "4", "3", "2", "1">>>>

SEmpty == << <<>> >>

SKey1 == <<"5", "6", "7", "8">>

\* an account number with letters behind its eight digits
SAcctTail == <<<<"1", "2", "3", "4", "5", "6", "7", "8", "a", "b">>>>

SKeyTail == <<"7", "8", "a", "b">>

\* schwab: <month> <first day>-<last day>, <year>
SDate1 == <<<<"A", "u", "g", "u", "s", "t">>, <<"1", "-", "3", "1", ",">>, <<"2", "0", "2", "4">>>>

SDate2 == <<<<"S", "e", "p", "t", "e", "m", "b", "e", "r">>, <<"1", "-", "3", "0", ",">>, <<"2", "0", "2", "3">>>>

SDateCut == <<<<"A", "u", "g", "u", "s", "t">>>>

\* schwab: Ending Value <current> <previous>
Ending(cur, prev) == <<W_Ending, W_Value, cur, prev>>

Ending1 == Ending(V150, V100)

Ending2 == Ending(V300, V200)

EndingPlain == Ending(V150, VPlain)

EndingComma == Ending(V150, VComma)

EndingNA == Ending(V150, VNA)

EndingBadContext == <<W_Ending, <<"B", "a", "l", "a", "n", "c", "e">>>>

\* schwab: the gain table, (ST) (LT) Short-Term ... with the four values 13,
\* 16, 21 and 24 words after (ST)
Filler == <<"x">>

GainTable(st, lt, styd, ltyd) ==
  <<W_ST, W_LT, W_ShortTerm>> \o [k \in 1..10 |-> Filler] \o <<st, Filler, Filler, lt>>
    \o [k \in 1..4 |-> Filler] \o <<styd, Filler, Filler, ltyd>>

Gains1 == GainTable(V5, V7, V100, V200)

GainsNA == GainTable(V5, V7, V100, VNA)

\* the kinds of schwab statement
SchwabFamilies ==
  { {SAcct1, SAcct2, SEmpty, SDate1},
    {SAcct1, SDate1, SDate2, SDateCut},
    {SAcct1, Ending1, Ending2, EndingBadContext},
    {SAcct1, EndingPlain, EndingComma, EndingNA},
    {SAcct1, Gains1, GainsNA},
    {SAcct1, SAcctTail} }

\* the pages a document of kind F can hold
Pages(F) == FragSeqs(F, MaxFrags)

\* ------------------------------------------------------------------------
\* The state of one call
\* ------------------------------------------------------------------------

VARIABLES
  extractor,             \* which function was called: "chase" or "schwab"
  doc,                   \* the document opened, as the kind of statement it is
  pc,                    \* "scan" inside the loops, "done" after return,
                         \* "raised" when an exception left the function
  doc_closed,            \* the calls of doc.close() so far
  pages,                 \* the pages read so far
  ret,                   \* the words of the current page
  i,                     \* the place in ret of the next word (from 1)
  statement_data,
  acc_number,
  page_flag,
  date,                  \* chase only
  year,                  \* schwab only
  cur_period_value,
  short_term_net_gains,
  long_term_net_gains    \* chase only

\* main.py: the database behind the connection con
VARIABLES
  con_open,              \* con is open
  raw_transactions,      \* the committed rows of the table
  cusip_ticker,          \* the committed rows of the table
  uncommitted,           \* the rows con has inserted and not committed
  csv_files              \* the calls of insert_raw_transactions so far: the
                         \* rows of each file and how the call ended

\* fidelityAPI.py: one FidelityAutomation object and the calls made on it
VARIABLES
  account_dict,          \* self.account_dict
  new_account_number,    \* self.new_account_number
  source_account,        \* self.source_account, NoAttribute until assigned
  calls,                 \* the calls made on the object so far
  call,                  \* the last call: its arguments and what the
                         \* browser answered
  returned,              \* the value the last call returned
  raised,                \* the exception that left the last call
  transfers              \* the calls of fund_account so far

reader_vars ==
  <<extractor, doc, pc, doc_closed, pages, ret, i, statement_data, acc_number,
    page_flag, date, year, cur_period_value, short_term_net_gains,
    long_term_net_gains>>

db_vars == <<con_open, raw_transactions, cusip_ticker, uncommitted, csv_files>>

fidelity_vars ==
  <<account_dict, new_account_number, source_account, calls, call, returned,
    raised, transfers>>

vars == <<reader_vars, db_vars, fidelity_vars>>

\* an attribute that was never assigned: reading it raises AttributeError
NoAttribute == <<"no", "attribute">>

\* no FidelityAutomation object
NoBrowser ==
  /\ account_dict = <<>>
  /\ new_account_number = None
  /\ source_account = NoAttribute
  /\ calls = 0
  /\ call = <<>>
  /\ returned = None
  /\ raised = None
  /\ transfers = <<>>

\* an open transaction that holds no row
NoRows == [raw_transactions |-> {}, cusip_ticker |-> {}]

\* main.py is not running: no connection and no table
NoDatabase ==
  /\ con_open = FALSE
  /\ raw_transactions = None
  /\ cusip_ticker = None
  /\ uncommitted = None
  /\ csv_files = <<>>

\* the variables of the function as one record
Locals ==
  [statement_data |-> statement_data, acc_number |-> acc_number,
   page_flag |-> page_flag, date |-> date, year |-> year,
   cur_period_value |-> cur_period_value,
   short_term_net_gains |-> short_term_net_gains,
   long_term_net_gains |-> long_term_net_gains]

Assign(s) ==
  /\ statement_data' = s.statement_data
  /\ acc_number' = s.acc_number
  /\ page_flag' = s.page_flag
  /\ date' = s.date
  /\ year' = s.year
  /\ cur_period_value' = s.cur_period_value
  /\ short_term_net_gains' = s.short_term_net_gains
  /\ long_term_net_gains' = s.long_term_net_gains

\* lines 53-60 and 183-191: the document is open, nothing is extracted
Init ==
  /\ \/ extractor = "chase" /\ doc \in ChaseFamilies
     \/ extractor = "schwab" /\ doc \in SchwabFamilies
  /\ pc = "scan"
  /\ doc_closed = 0
  /\ pages = 0
  /\ ret = <<>>
  /\ i = 1
  /\ statement_data = <<>>
  /\ acc_number = None
  /\ page_flag = FALSE
  /\ date = None
  /\ year = None
  /\ cur_period_value = None
  /\ short_term_net_gains = None
  /\ long_term_net_gains = None
  /\ NoDatabase
  /\ NoBrowser

AtPageEnd == pc = "scan" /\ i > Len(ret)

\* lines 62-74: the next page of the document
ChasePage ==
  /\ extractor = "chase" /\ AtPageEnd /\ pages < MaxPages
  /\ \E page \in Pages(doc) : ret' = page
  /\ i' = 1
  /\ pages' = pages + 1
  /\ Assign(ChasePageStart(Locals))
  /\ UNCHANGED <<extractor, doc, pc, doc_closed>>
  /\ UNCHANGED <<db_vars, fidelity_vars>>

\* lines 77-146: one word of the page
ChaseWord ==
  /\ extractor = "chase" /\ pc = "scan" /\ i <= Len(ret)
  /\ Assign(ChaseIteration(Locals, ret, i))
  /\ i' = i + 1
  /\ UNCHANGED <<extractor, doc, pc, doc_closed, pages, ret>>
  /\ UNCHANGED <<db_vars, fidelity_vars>>

\* lines 150-155: no page is left
ChaseReturn ==
  /\ extractor = "chase" /\ AtPageEnd
  /\ statement_data' = ChaseFixDates(statement_data, date)
  /\ doc_closed' = doc_closed + 1
  /\ pc' = "done"
  /\ UNCHANGED <<extractor, doc, pages, ret, i, acc_number, page_flag, date, year,
                 cur_period_value, short_term_net_gains, long_term_net_gains>>
  /\ UNCHANGED <<db_vars, fidelity_vars>>

\* lines 193-207: the next page of the document
SchwabPage ==
  /\ extractor = "schwab" /\ AtPageEnd /\ pages < MaxPages
  /\ \E page \in Pages(doc) : ret' = page
  /\ i' = 1
  /\ pages' = pages + 1
  /\ Assign(SchwabPageStart(Locals))
  /\ UNCHANGED <<extractor, doc, pc, doc_closed>>
  /\ UNCHANGED <<db_vars, fidelity_vars>>

\* lines 210-276: one word of the page
SchwabWord ==
  /\ extractor = "schwab" /\ pc = "scan" /\ i <= Len(ret)
  /\ IF SchwabRaises(Locals, ret, i)
     THEN /\ pc' = "raised"
          /\ UNCHANGED <<i, statement_data, acc_number, page_flag, date, year,
                         cur_period_value, short_term_net_gains,
                         long_term_net_gains>>
     ELSE /\ Assign(SchwabIteration(Locals, ret, i))
          /\ i' = i + 1
          /\ pc' = pc
  /\ UNCHANGED <<extractor, doc, doc_closed, pages, ret>>
  /\ UNCHANGED <<db_vars, fidelity_vars>>

\* lines 278-279: no page is left
SchwabReturn ==
  /\ extractor = "schwab" /\ AtPageEnd
  /\ doc_closed' = doc_closed + 1
  /\ pc' = "done"
  /\ UNCHANGED <<extractor, doc, pages, ret, i, statement_data, acc_number, page_flag,
                 date, year, cur_period_value, short_term_net_gains,
                 long_term_net_gains>>
  /\ UNCHANGED <<db_vars, fidelity_vars>>

\* lines 62-65 and 193-196: loading the next page or its words raises (a
\* damaged page); nothing in either function catches it
PageError ==
  /\ AtPageEnd /\ pages < MaxPages
  /\ pc' = "raised"
  /\ UNCHANGED <<extractor, doc, doc_closed, pages, ret, i, statement_data, acc_number,
                 page_flag, date, year, cur_period_value, short_term_net_gains,
                 long_term_net_gains>>
  /\ UNCHANGED <<db_vars, fidelity_vars>>

Next ==
  \/ ChasePage
  \/ ChaseWord
  \/ ChaseReturn
  \/ SchwabPage
  \/ SchwabWord
  \/ SchwabReturn
  \/ PageError

Spec == Init /\ [][Next]_vars

\* ------------------------------------------------------------------------
\* main.py: insert_raw_transactions on the connection of create_db
\* ------------------------------------------------------------------------

\* the files handled on one connection before the model stops
MaxFiles == 2

\* the rows of a file
MaxRows == 2

\* a string that counts as true: neither None nor ''
Truthy(x) == x # None /\ x # Some("")

\* the rows of a transactions file, as csv.DictReader hands them over: a
\* complete row, one of another security, one with an empty Cusip, and a
\* line cut off behind Account Name, whose other fields are None
RowFull == [account_number |-> Some("111"), cusip |-> Some("C1"), ticker |-> Some("T1")]

RowOther == [account_number |-> Some("222"), cusip |-> Some("C2"), ticker |-> Some("T2")]

RowNoCusip == [account_number |-> Some("111"), cusip |-> Some(""), ticker |-> Some("T1")]

RowCut == [account_number |-> None, cusip |-> None, ticker |-> None]

CsvRows == {RowFull, RowOther, RowNoCusip, RowCut}

RECURSIVE RowSeqs(_)
RowSeqs(n) ==
  IF n = 0 THEN {<<>>}
  ELSE LET shorter == RowSeqs(n - 1)
       IN shorter \cup {Append(rows, row) : rows \in shorter, row \in CsvRows}

\* the files: fields tells whether the header holds all required fields
CsvFiles ==
  {[fields |-> TRUE, rows |-> rows] : rows \in RowSeqs(MaxRows)}
    \cup {[fields |-> FALSE, rows |-> <<RowFull>>]}

\* lines 117-119: INSERT INTO raw_transactions; account_number is NOT NULL,
\* so the row of a cut line is refused (sqlite3.IntegrityError)
Refused(row) == row.account_number = None

InsertRaw(tx, row, file, line) ==
  [tx EXCEPT !.raw_transactions =
     @ \cup {[file |-> file, line |-> line, account_number |-> row.account_number,
              cusip |-> row.cusip, ticker |-> row.ticker]}]

\* lines 122-126: INSERT INTO cusip_ticker ... ON CONFLICT(cusip) DO NOTHING
InsertCusip(tx, known, row, file) ==
  IF /\ Truthy(row.cusip) /\ Truthy(row.ticker)
     /\ row.cusip \notin {c.cusip : c \in known \cup tx.cusip_ticker}
  THEN [tx EXCEPT !.cusip_ticker =
          @ \cup {[cusip |-> row.cusip, ticker |-> row.ticker, file |-> file]}]
  ELSE tx

\* lines 112-126: the loop over the rows, up to the first row sqlite refuses
RECURSIVE InsertLoop(_, _, _, _, _)
InsertLoop(tx, known, rows, file, line) ==
  IF line > Len(rows) THEN [tx |-> tx, error |-> FALSE]
  ELSE IF Refused(rows[line]) THEN [tx |-> tx, error |-> TRUE]
  ELSE InsertLoop(InsertCusip(InsertRaw(tx, rows[line], file, line), known,
                              rows[line], file),
                  known, rows, file, line + 1)

\* no extraction is running
NoDocument ==
  /\ extractor = "none" /\ doc = {} /\ pc = "done" /\ doc_closed = 0
  /\ pages = 0 /\ ret = <<>> /\ i = 1 /\ statement_data = <<>>
  /\ acc_number = None /\ page_flag = FALSE /\ date = None /\ year = None
  /\ cur_period_value = None /\ short_term_net_gains = None
  /\ long_term_net_gains = None

\* lines 5-75: create_db has connected and created the empty tables
DbInit ==
  /\ NoDocument
  /\ NoBrowser
  /\ con_open = TRUE
  /\ raw_transactions = {}
  /\ cusip_ticker = {}
  /\ uncommitted = NoRows
  /\ csv_files = <<>>

Ended(file, outcome) ==
  csv_files' = Append(csv_files, [rows |-> file.rows, outcome |-> outcome])

\* lines 87-135: one call of insert_raw_transactions(file_name, con, cur)
insert_raw_transactions ==
  /\ con_open /\ Len(csv_files) < MaxFiles
  /\ \E file \in CsvFiles :
       IF ~file.fields
       THEN \* lines 106-108: raise Exception, before anything is inserted
            /\ Ended(file, "raised")
            /\ UNCHANGED <<raw_transactions, cusip_ticker, uncommitted>>
       ELSE \A run \in {InsertLoop(uncommitted, cusip_ticker, file.rows,
                                   Len(csv_files) + 1, 1)} :
              IF run.error
              THEN \* lines 131-132: except sqlite3.Error: print(e)
                   /\ Ended(file, "error")
                   /\ uncommitted' = run.tx
                   /\ UNCHANGED <<raw_transactions, cusip_ticker>>
              ELSE \* line 129: con.commit()
                   /\ Ended(file, "committed")
                   /\ raw_transactions' = raw_transactions \cup run.tx.raw_transactions
                   /\ cusip_ticker' = cusip_ticker \cup run.tx.cusip_ticker
                   /\ uncommitted' = NoRows
  /\ UNCHANGED <<con_open, reader_vars, fidelity_vars>>

\* line 193: con.close(); what is not committed is rolled back
close ==
  /\ con_open
  /\ con_open' = FALSE
  /\ uncommitted' = NoRows
  /\ UNCHANGED <<raw_transactions, cusip_ticker, csv_files, reader_vars, fidelity_vars>>

DbNext ==
  \/ insert_raw_transactions
  \/ close

DbSpec == DbInit /\ [][DbNext]_vars

\* ------------------------------------------------------------------------
\* fidelityAPI.py: FidelityAutomation.login
\* ------------------------------------------------------------------------

\* the calls made on one object before the model stops
MaxCalls == 2

\* lines 43-56: the object after __init__, no call made yet
FidelityInit ==
  /\ NoDocument
  /\ NoDatabase
  /\ NoBrowser

\* the arguments of login: the TOTP secret (None, 'NA' or a secret),
\* save_device, and source_account (None by default)
LoginArguments ==
  [totp_secret : {None, Some("NA"), Some("SECRET")},
   save_device : BOOLEAN,
   source_account : {None, Some("X123")}]

\* what the browser does during login.  reach: what lines 133-148 end in, a
\* PlaywrightTimeoutError, another exception, or a loaded page whose url
\* holds 'summary', holds 'login', or holds neither.  widget: the 2FA widget
\* becomes visible in time (line 159).  totp_field, authenticator_text,
\* try_another: what is_visible() answers at lines 161, 196 and 204.
\* box_checked: what is_checked() answers at lines 172 and 206.  finished:
\* the clicks and waits behind these succeed (lines 176-185, 210-214);
\* otherwise one of them raises PlaywrightTimeoutError.  Answers the code
\* never asks for are FALSE.
LoginBrowsers ==
  {b \in [reach : {"timeout", "error", "summary", "login", "other"},
          widget : BOOLEAN, totp_field : BOOLEAN, authenticator_text : BOOLEAN,
          try_another : BOOLEAN, box_checked : BOOLEAN, finished : BOOLEAN] :
     /\ b.reach # "login" => ~b.widget
     /\ ~b.widget => (~b.totp_field /\ ~b.authenticator_text /\ ~b.try_another
                        /\ ~b.box_checked /\ ~b.finished)}

\* line 153: the secret 'NA' counts as no secret
TotpSecret(a) == IF a.totp_secret = Some("NA") THEN None ELSE a.totp_secret

\* lines 161-193: the code of the authenticator is entered
LoginTotp(self, a, b) ==
  IF a.save_device /\ ~b.box_checked
  THEN [returned |-> <<FALSE, FALSE>>, source_account |-> self]  \* line 173
  ELSE IF ~b.finished
  THEN [returned |-> <<FALSE, FALSE>>, source_account |-> self]  \* lines 176-185
  ELSE LET saved == IF Truthy(a.source_account) THEN a.source_account ELSE self
       IN IF saved = NoAttribute
          THEN \* line 190: AttributeError, caught at line 224
               [returned |-> <<FALSE, FALSE>>, source_account |-> saved]
          ELSE [returned |-> <<TRUE, TRUE>>, source_account |-> saved]

\* lines 196-216: the code is asked for by text message
LoginText(self, a, b) ==
  IF b.authenticator_text
  THEN [returned |-> <<FALSE, FALSE>>, source_account |-> self]  \* line 199
  ELSE IF b.try_another /\ ~b.box_checked
  THEN [returned |-> <<FALSE, FALSE>>, source_account |-> self]  \* line 207
  ELSE IF ~b.finished
  THEN [returned |-> <<FALSE, FALSE>>, source_account |-> self]  \* lines 210-214
  ELSE [returned |-> <<TRUE, FALSE>>, source_account |-> self]

\* lines 131-227: login(username, password, totp_secret, save_device,
\* source_account) on an object whose source_account attribute is self
Login(self, a, b) ==
  CASE b.reach = "summary" -> [returned |-> <<TRUE, TRUE>>, source_account |-> self]
    [] b.reach = "login" ->
         IF ~b.widget
         THEN [returned |-> <<FALSE, FALSE>>, source_account |-> self]  \* line 159
         ELSE IF TotpSecret(a) # None /\ b.totp_field
         THEN LoginTotp(self, a, b)
         ELSE LoginText(self, a, b)
    [] OTHER -> \* lines 219-227
         [returned |-> <<FALSE, FALSE>>, source_account |-> self]

login ==
  /\ calls < MaxCalls
  /\ \E a \in LoginArguments : \E b \in LoginBrowsers :
       /\ call' = [op |-> "login", arguments |-> a, browser |-> b]
       /\ returned' = Login(source_account, a, b).returned
       /\ source_account' = Login(source_account, a, b).source_account
  /\ raised' = None
  /\ calls' = calls + 1
  /\ UNCHANGED <<account_dict, new_account_number, transfers, reader_vars, db_vars>>

LoginNext == login

LoginSpec == FidelityInit /\ [][LoginNext]_vars

\* ------------------------------------------------------------------------
\* fidelityAPI.py: FidelityAutomation.getAccountInfo
\* ------------------------------------------------------------------------

\* the rows of a positions file
MaxPositions == 2

\* a string and an int, as the values a dict entry can hold
Text(t) == <<"str", t>>

Number(n) == <<"int", n>>

W_and == <<"a", "n", "d">>

W_Pending == <<"P", "e", "n", "d", "i", "n", "g">>

W_na == <<"n", "/", "a">>

\* the accounts and the rows of the positions file, as csv.DictReader hands
\* them over: two positions of account X11, the second without Quantity and
\* Last Price; a position of account X22 whose value is n/a; a pending
\* activity; a position without a value; a position whose value is no
\* number; and the disclaimer that follows the positions
X11 == <<"X", "1", "1">>

X22 == <<"X", "2", "2">>

Position(account, name, symbol, quantity, last_price, value) ==
  [account_number |-> account, account_name |-> name, symbol |-> symbol,
   quantity |-> quantity, last_price |-> last_price, current_value |-> value]

RowAAA ==
  Position(X11, "Individual", <<"A", "A", "A">>, <<"1">>, <<"$", "1", "0">>,
           <<"$", "1", "0">>)

RowBBB == Position(X11, "Individual", <<"B", "B", "B">>, <<>>, <<>>, <<"$", "5">>)

RowCCC == Position(X22, "Roth", <<"C", "C", "C">>, <<"2">>, <<"$", "3">>, <<"N", "/", "A">>)

RowPending ==
  Position(X11, "Individual", W_Pending \o <<" ">> \o <<"A", "c", "t", "i", "v", "i", "t", "y">>,
           <<>>, <<>>, <<"$", "7">>)

RowNoValue == Position(X11, "Individual", <<"D", "D", "D">>, <<"1">>, <<"$", "1">>, <<>>)

RowNoNumber == Position(X11, "Individual", <<"E", "E", "E">>, <<"1">>, <<"$", "1">>, <<"-", "-">>)

RowDisclaimer ==
  Position(<<"F", "i", "d", "e", "l", "i", "t", "y", " ">> \o W_and \o <<" ", "o", "t", "h", "e", "r", "s">>,
           "", <<>>, <<>>, <<>>, <<>>)

PositionRows ==
  {RowAAA, RowBBB, RowCCC, RowPending, RowNoValue, RowNoNumber, RowDisclaimer}

RECURSIVE PositionSeqs(_)
PositionSeqs(n) ==
  IF n = 0 THEN {<<>>}
  ELSE LET shorter == PositionSeqs(n - 1)
       IN shorter \cup {Append(rows, row) : rows \in shorter, row \in PositionRows}

PositionFiles == PositionSeqs(MaxPositions)

\* lines 626-629: the disclaimers behind the positions end the loop
IsDisclaimer(row) == Contains(W_and, row.account_number)

\* lines 631 and 645-646: the value without '$', 0 when it is n/a
PositionValue(row) ==
  LET val == Remove(row.current_value, "$")
  IN IF Lower(val) = W_na THEN Number(0) ELSE Text(val)

\* lines 640-644: a pending activity and a row without a value are passed over
PassedOver(row) ==
  Contains(W_Pending, row.symbol) \/ Len(Remove(row.current_value, "$")) = 0

\* lines 631-652 and 664-669: the dict of one position
Stock(row) ==
  [ticker |-> row.symbol,
   quantity |-> IF Len(row.quantity) = 0 THEN Number(1) ELSE Text(row.quantity),
   last_price |-> IF Len(Remove(row.last_price, "$")) = 0 THEN PositionValue(row)
                  ELSE Text(Remove(row.last_price, "$")),
   value |-> PositionValue(row)]

\* float(val): None when float() raises ValueError
Float(val) ==
  IF val[1] = "int" THEN Some([neg |-> FALSE, int |-> val[2], frac |-> <<>>])
  ELSE ParseFloat(val[2])

\* a + b for two floats that are whole and not negative, as the values of
\* the model are
Plus(a, b) == [neg |-> FALSE, int |-> a.int + b.int, frac |-> <<>>]

\* lines 655-682: the position is stored under its account.  For a new
\* account float(val) is evaluated while the dict is built, before anything
\* is stored; for a known account the stock is appended before float(val)
\* is evaluated.
AddPosition(dict, row) ==
  LET account == row.account_number
      amount == Float(PositionValue(row))
  IN IF account \notin DOMAIN dict
     THEN IF amount = None THEN [dict |-> dict, raised |-> Some("ValueError")]
          ELSE [dict |-> [k \in DOMAIN dict \cup {account} |->
                            IF k = account
                            THEN [balance |-> amount[1], type |-> row.account_name,
                                  stocks |-> <<Stock(row)>>]
                            ELSE dict[k]],
                raised |-> None]
     ELSE LET appended == [dict EXCEPT ![account].stocks = Append(@, Stock(row))]
          IN IF amount = None THEN [dict |-> appended, raised |-> Some("ValueError")]
             ELSE [dict |-> [appended EXCEPT ![account].balance = Plus(@, amount[1])],
                   raised |-> None]

\* lines 624-682: the loop over the rows
RECURSIVE ReadPositions(_, _, _)
ReadPositions(dict, rows, j) ==
  IF j > Len(rows) \/ IsDisclaimer(rows[j]) THEN [dict |-> dict, raised |-> None]
  ELSE IF PassedOver(rows[j]) THEN ReadPositions(dict, rows, j + 1)
  ELSE LET added == AddPosition(dict, rows[j])
       IN IF added.raised # None THEN added
          ELSE ReadPositions(added.dict, rows, j + 1)

\* lines 579-688: getAccountInfo().  The positions do not change while the
\* object is in use: every call downloads the same file.
getAccountInfo ==
  /\ calls < MaxCalls
  /\ \E positions \in PositionFiles :
       /\ calls > 0 => positions = call.positions
       /\ call' = [op |-> "getAccountInfo", positions |-> positions]
       /\ \A read \in {ReadPositions(account_dict, positions, 1)} :
            /\ account_dict' = read.dict
            /\ raised' = read.raised
            /\ returned' = IF read.raised = None THEN read.dict ELSE None
  /\ calls' = calls + 1
  /\ UNCHANGED <<new_account_number, source_account, transfers, reader_vars, db_vars>>

AccountInfoNext == getAccountInfo

AccountInfoSpec == FidelityInit /\ [][AccountInfoNext]_vars

\* ------------------------------------------------------------------------
\* fidelityAPI.py: FidelityAutomation.open_account
\* ------------------------------------------------------------------------

W_ROTH_IRA == <<"R", "O", "T", "H", " ", "I", "R", "A">>

\* the digits that stand in t from place p on
RECURSIVE DigitRun(_, _)
DigitRun(t, p) ==
  IF p <= Len(t) /\ IsDigit(t[p]) THEN 1 + DigitRun(t, p + 1) ELSE 0

\* the first place from p on that holds no white space
RECURSIVE SkipSpace(_, _)
SkipSpace(t, p) == IF p <= Len(t) /\ t[p] = " " THEN SkipSpace(t, p + 1) ELSE p

\* '(' lead digits ')' stands in t at place p
GroupAt(t, p, lead) ==
  LET q == p + 1 + Len(lead)
  IN /\ q <= Len(t) /\ t[p] = "("
     /\ SubSeq(t, p + 1, q - 1) = lead
     /\ DigitRun(t, q) > 0
     /\ q + DigitRun(t, q) <= Len(t) /\ t[q + DigitRun(t, q)] = ")"

\* the group of the match at place p: what stands between the parentheses
Group(t, p, lead) == SubSeq(t, p + 1, p + Len(lead) + DigitRun(t, p + 1 + Len(lead)))

\* line 728: re.search(r'ROTH IRA\s*\((\d+)\)', account_text): the group of
\* the leftmost match, None when there is no match
RothNumber(t) ==
  LET at == {k \in 1..Len(t) :
               /\ k + 7 <= Len(t) /\ SubSeq(t, k, k + 7) = W_ROTH_IRA
               /\ GroupAt(t, SkipSpace(t, k + 8), <<>>)}
  IN IF at = {} THEN None
     ELSE Some(Group(t, SkipSpace(t, (CHOOSE k \in at : \A m \in at : k <= m) + 8), <<>>))

\* line 765: re.search(r'\((Z\d+)\)', account_text)
BrokerageNumber(t) ==
  LET at == {p \in 1..Len(t) : GroupAt(t, p, <<"Z">>)}
  IN IF at = {} THEN None
     ELSE Some(Group(t, CHOOSE p \in at : \A m \in at : p <= m, <<"Z">>))

\* the Account column of the first row of the message center: a new Roth
\* IRA, a new brokerage account, and a row that names no account
TextRoth == <<"R", "O", "T", "H", " ", "I", "R", "A", " ", "(", "1", "2", "3", ")">>

TextBrokerage == <<"I", "n", "d", "i", "v", "i", "d", "u", "a", "l", " ", "(", "Z", "4", "5", ")">>

TextOther == <<"W", "e", "l", "c", "o", "m", "e", " ", "(", "n", "e", "w", ")">>

\* the arguments of open_account; type is None by default
OpenArguments ==
  [type : {None, Some("roth"), Some("brokerage"), Some("hsa")}, transfer : {5}]

\* what the browser does during open_account: the pages load or one of the
\* waits raises (nothing in open_account catches it), the text of the
\* Account column, and whether fund_account succeeds
OpenBrowsers ==
  [loads : BOOLEAN, account_text : {TextRoth, TextBrokerage, TextOther},
   funded : BOOLEAN]

\* lines 706-771: the account number found in this call: None when the type
\* is neither roth nor brokerage or the text holds no number of the type
NumberFound(a, b) ==
  CASE a.type = Some("roth") -> RothNumber(b.account_text)
    [] a.type = Some("brokerage") -> BrokerageNumber(b.account_text)
    [] OTHER -> None

Opens(a) == a.type \in {Some("roth"), Some("brokerage")}

\* lines 690-785: open_account(type, transfer) on the object self
OpenAccount(self, a, b) ==
  LET same == [new_account_number |-> self.new_account_number,
               transfers |-> self.transfers]
      found == NumberFound(a, b)
      number == IF Opens(a) THEN found ELSE self.new_account_number
  IN IF Opens(a) /\ ~b.loads
     THEN same @@ [returned |-> None, raised |-> Some("TimeoutError")]
     ELSE IF Opens(a) /\ found = None
     THEN same @@ [returned |-> <<FALSE, None>>, raised |-> None]  \* lines 734, 771
     ELSE IF number = None
     THEN same @@ [returned |-> <<FALSE, None>>, raised |-> None]  \* line 785
     ELSE IF self.source_account = NoAttribute
     THEN \* line 776: self.source_account raises AttributeError
          [new_account_number |-> number, transfers |-> self.transfers,
           returned |-> None, raised |-> Some("AttributeError")]
     ELSE \* lines 776-783: fund_account(self.source_account, number, transfer)
          [new_account_number |-> number,
           transfers |-> Append(self.transfers,
                                [source |-> self.source_account[1], to |-> number[1],
                                 amount |-> a.transfer]),
           returned |-> IF b.funded THEN <<TRUE, number>> ELSE <<FALSE, None>>,
           raised |-> None]

\* lines 43-56 and 1002-1008: the object after __init__ and the login of
\* the script, which leaves source_account assigned or not
OpenAccountInit ==
  /\ NoDocument
  /\ NoDatabase
  /\ account_dict = <<>>
  /\ new_account_number = None
  /\ source_account \in {NoAttribute, Some("X123")}
  /\ calls = 0
  /\ call = <<>>
  /\ returned = None
  /\ raised = None
  /\ transfers = <<>>

open_account ==
  /\ calls < MaxCalls
  /\ \E a \in OpenArguments : \E b \in OpenBrowsers :
       \A end \in {OpenAccount([new_account_number |-> new_account_number,
                                source_account |-> source_account,
                                transfers |-> transfers], a, b)} :
         /\ call' = [op |-> "open_account", arguments |-> a, browser |-> b]
         /\ new_account_number' = end.new_account_number
         /\ transfers' = end.transfers
         /\ returned' = end.returned
         /\ raised' = end.raised
  /\ calls' = calls + 1
  /\ UNCHANGED <<account_dict, source_account, reader_vars, db_vars>>

OpenAccountNext == open_account

OpenAccountSpec == OpenAccountInit /\ [][OpenAccountNext]_vars

\* ------------------------------------------------------------------------
\* The claims
\* ------------------------------------------------------------------------

\* the float a value word spells
Money(int, frac) == Some([neg |-> FALSE, int |-> int, frac |-> frac])

Chase == extractor = "chase"

Schwab == extractor = "schwab"

\* a step that handles the word ret[i]
AtWord == pc = "scan" /\ i <= Len(ret)

\* the first and only page has been scanned to its end
OnePageScanned == AtPageEnd /\ pages = 1

\* C1: first-match-wins for chase: once a numeric slot of a record holds a
\* value, no later step (same page or later page) changes that value.
FirstMatchWins ==
  [][Chase =>
       \A k \in DOMAIN statement_data : \A sl \in NumericSlots :
          statement_data[k][sl] # None =>
             statement_data'[k][sl] = statement_data[k][sl]]_vars

\* C2: multi-account page: a single page with the anchors of two distinct
\* accounts, each followed in its own scope by TOTAL ACCOUNT VALUE p c,
\* returns two records, each with the values of its own scope.
MultiAccountPage ==
  (Chase /\ pc = "done" /\ pages = 1
     /\ ret = ScopeA \o Total1 \o ScopeB \o Total2)
  => /\ DOMAIN statement_data = {KeyA, KeyB}
     /\ statement_data[KeyA].prev_period_val = Money(100, <<>>)
     /\ statement_data[KeyA].cur_period_val = Money(150, <<>>)
     /\ statement_data[KeyB].prev_period_val = Money(200, <<>>)
     /\ statement_data[KeyB].cur_period_val = Money(300, <<"5">>)

\* the key of a valid scope anchor at place k of page r, None when the word
\* there is no anchor or its key is not valid
ScopeKeyAt(r, k) ==
  IF Contains(W_Acct, r[k]) /\ k + 2 <= Len(r)
  THEN LET key == LastChars(Remove(r[k + 2], ")"), 4)
       IN IF ParseInt(key) # None /\ ParseInt(key) # Some(0) THEN Some(key) ELSE None
  ELSE None

\* the place of the last scope anchor (valid or not) among the first j words
\* of page r, 0 when there is none
LastAnchorAt(r, j) ==
  LET S == {k \in 1..j : Contains(W_Acct, r[k])}
  IN IF S = {} THEN 0 ELSE CHOOSE k \in S : \A m \in S : m <= k

SlotBefore(k, sl) ==
  IF k \in DOMAIN statement_data THEN statement_data[k][sl] ELSE None

\* C3: no cross-attribution: a numeric slot of account k changes only in the
\* step of a word of the page whose most recent scope anchor, at or before
\* that word on the same page, is a valid anchor of k.
NoCrossAttribution ==
  [][Chase =>
       \A k \in DOMAIN statement_data' : \A sl \in NumericSlots :
          statement_data'[k][sl] # SlotBefore(k, sl) =>
             /\ AtWord
             /\ LastAnchorAt(ret, i) > 0
             /\ ScopeKeyAt(ret, LastAnchorAt(ret, i)) = Some(k)]_vars

\* C3 witness: on a page with the anchor of A and then the anchor of B, the
\* values behind them were written to B and not to A.
NoCrossAttributionWitness ==
  /\ Chase /\ OnePageScanned
  /\ ret = ScopeA \o ScopeB \o Total1
  /\ statement_data[KeyB].prev_period_val = Money(100, <<>>)
  /\ statement_data[KeyA].prev_period_val = None

DateAugust31 ==
  Some(<<"2", "0", "2", "4", "-", "0", "8", "-", "3", "1">>)

\* C4: global date back-fill: when chase_statement_extract has returned,
\* every record carries the document-wide date (the one resolved date, or
\* None when none was resolved), whatever page created the record.
GlobalDateBackFill ==
  (Chase /\ pc = "done") =>
     \A k \in DOMAIN statement_data : statement_data[k].date = date

\* C4 witness: the date was found on page 2 and the record of B, created on
\* page 1, carries it after the return.
GlobalDateBackFillWitness ==
  /\ Chase /\ pc = "done" /\ pages = 2
  /\ ret = ScopeA \o Date1
  /\ DOMAIN statement_data = {KeyA, KeyB}
  /\ statement_data[KeyB].date = DateAugust31
  /\ statement_data[KeyA].date = DateAugust31

\* C5: date short-circuit, both extractors: once the document-wide date is
\* resolved (date of chase; the date slot of the schwab record, and year),
\* no later step changes or erases it.
DateShortCircuit ==
  [][/\ date # None => date' = date
     /\ year # None => year' = year
     /\ \A k \in DOMAIN statement_data :
          statement_data[k].date # None =>
             statement_data'[k].date = statement_data[k].date]_vars

\* C5 witness: the date was resolved and a later candidate that fails (a day
\* that is no number) was scanned on the same page.
DateShortCircuitWitness ==
  /\ Chase /\ OnePageScanned
  /\ ret = ScopeA \o Date1 \o DateBadDay
  /\ date = DateAugust31

\* C6: no token-level failure propagates: the step of a word, whatever its
\* text, never leaves either extractor by an exception.
NoTokenFailure == [][AtWord => pc' # "raised"]_vars

IsFieldAnchor(text) == text \in {W_Statement, W_TOTAL, W_ShortTerm, W_LongTerm}

\* the literals the claim expects behind a field anchor
ExpectedContext(text) ==
  CASE text = W_Statement -> <<W_Period>>
    [] text = W_TOTAL -> <<W_ACCOUNT, W_VALUE>>
    [] OTHER -> <<W_Net, W_Gain>>

\* a field anchor at place j of page r with an expected literal that differs
\* or lies past the end of the page
ContextMissing(r, j) ==
  /\ IsFieldAnchor(r[j])
  /\ \E n \in 1..Len(ExpectedContext(r[j])) :
        j + n > Len(r) \/ r[j + n] # ExpectedContext(r[j])[n]

\* C7: missing-context tolerance: a field anchor inside an active scope whose
\* expected literal differs or is past the page end writes no slot, raises
\* nothing and leaves the field open (its page variable as it was), and a
\* later well-formed TOTAL ACCOUNT VALUE on the same page is still matched.
MissingContextTolerance ==
  /\ [][(Chase /\ AtWord /\ page_flag /\ ContextMissing(ret, i)) =>
          /\ statement_data' = statement_data
          /\ date' = date
          /\ pc' = "scan" /\ i' = i + 1
          /\ cur_period_value' = cur_period_value
          /\ short_term_net_gains' = short_term_net_gains
          /\ long_term_net_gains' = long_term_net_gains]_vars
  /\ [](\A bad \in {TotalCut, TotalBadContext} :
          (Chase /\ OnePageScanned /\ ret = ScopeA \o bad \o Total1) =>
             /\ statement_data[KeyA].prev_period_val = Money(100, <<>>)
             /\ statement_data[KeyA].cur_period_val = Money(150, <<>>))

\* C7 witness: TOTAL ACCOUNT SUMMARY v v was passed over and the TOTAL
\* ACCOUNT VALUE behind it on the same page was matched.
MissingContextToleranceWitness ==
  /\ Chase /\ OnePageScanned
  /\ ret = ScopeA \o TotalBadContext \o Total1
  /\ statement_data[KeyA].prev_period_val = Money(100, <<>>)

\* C8: malformed account key: an anchor whose key is not valid (or cannot be
\* derived) is a non-match: no record is created and the field matches
\* behind it are still written to the account that was active before it.
MalformedKeyIsNonMatch ==
  \A bad \in {ScopeBad, ScopeZero, ScopeCut} :
     (Chase /\ OnePageScanned /\ ret = ScopeA \o bad \o Total1) =>
        /\ DOMAIN statement_data = {KeyA}
        /\ statement_data[KeyA].prev_period_val = Money(100, <<>>)
        /\ statement_data[KeyA].cur_period_val = Money(150, <<>>)

\* C9: currency normalization: "$12,345.67" and "12345.67" both set the slot
\* to 12345.67, and "N/A" leaves the slot Unset without raising.
CurrencyNormalization ==
  /\ (Chase /\ OnePageScanned /\ ret \in {ScopeA \o TotalComma, ScopeA \o TotalPlain})
       => statement_data[KeyA].prev_period_val = Money(12345, <<"6", "7">>)
  /\ (Chase /\ OnePageScanned /\ ret = ScopeA \o TotalNA)
       => statement_data[KeyA].prev_period_val = None
  /\ (Schwab /\ OnePageScanned /\ ret \in {SAcct1 \o EndingComma, SAcct1 \o EndingPlain})
       => statement_data[SKey1].prev_period_val = Money(12345, <<"6", "7">>)
  /\ (Schwab /\ OnePageScanned /\ ret = SAcct1 \o EndingNA)
       => statement_data[SKey1].prev_period_val = None

\* C10: document handle release: on every exit path of either extractor, a
\* return or an exception, the document has been closed exactly once.
DocumentClosedOnce == pc \in {"done", "raised"} => doc_closed = 1

\* ------------------------------------------------------------------------
\* chase_statement_extract as a function of the pages of the document
\* ------------------------------------------------------------------------

\* lines 56-60: the variables of the function before the first page
ChaseStart ==
  [statement_data |-> <<>>, acc_number |-> None, page_flag |-> FALSE,
   date |-> None, year |-> None, cur_period_value |-> None,
   short_term_net_gains |-> None, long_term_net_gains |-> None]

\* line 77: the loop over the words of page r, from the word at place j
\* (next is the value of the variables after the word at j, worked out once)
RECURSIVE ChaseScan(_, _, _)
ChaseScan(s, r, j) ==
  IF j > Len(r) THEN s
  ELSE CHOOSE end \in {ChaseScan(next, r, j + 1) : next \in {ChaseIteration(s, r, j)}} : TRUE

\* lines 62-146: one page of the document
ChaseReadPage(s, r) == ChaseScan(ChasePageStart(s), r, 1)

\* lines 150-155: what the function returns when the pages left s
ChaseReturned(s) == ChaseFixDates(s.statement_data, s.date)

\* the six numeric slots of every record of data
Numerics(data) ==
  [k \in DOMAIN data |-> [sl \in NumericSlots |-> data[k][sl]]]

\* the step that reads the second page of a document of the two accounts:
\* ret is the first page, scanned to its end, and ret' the second
SecondPageRead ==
  Chase /\ doc = OrderFamily /\ AtPageEnd /\ pages = 1 /\ pages' = 2

\* data of one page read alone and data of another give some slot of some
\* account two different values
Disagree(dp, dq) ==
  \E k \in DOMAIN dp \cap DOMAIN dq : \E sl \in NumericSlots :
     dp[k][sl] # None /\ dq[k][sl] # None /\ dp[k][sl] # dq[k][sl]

\* At SecondPageRead: alone is the second page read as the first page of the
\* document, inOrder what the function returns for the two pages as they
\* are read (from the variables the first page left), swapped what it
\* returns for the second page and then the first.  The numeric slots are
\* the same in both orders, or (when agreeingOnly) the two pages disagree.
SameInBothOrders(agreeingOnly) ==
  \A alone \in {ChaseReadPage(ChaseStart, ret')} :
    \A inOrder \in {ChaseReturned(ChaseReadPage(Locals, ret'))} :
      \A swapped \in {ChaseReturned(ChaseReadPage(alone, ret))} :
        \/ agreeingOnly /\ Disagree(statement_data, alone.statement_data)
        \/ Numerics(inOrder) = Numerics(swapped)

\* C11 as stated: order insensitivity of the account fields: the two pages
\* of a document give every account the same six numeric slot values in
\* either order.
OrderInsensitive == [][SecondPageRead => SameInBothOrders(FALSE)]_vars

\* C11 amended: two pages that do not give one slot of one account two
\* different values give every account the same six numeric slot values in
\* either order.
OrderInsensitiveWhenAgreeing == [][SecondPageRead => SameInBothOrders(TRUE)]_vars

\* C11 witness: page 1 held the values of B and page 2 those of A, and
\* both records hold their values after page 2.
OrderInsensitiveWitness ==
  /\ Chase /\ AtPageEnd /\ pages = 2
  /\ ret = ScopeA \o Total1
  /\ DOMAIN statement_data = {KeyA, KeyB}
  /\ statement_data[KeyA].cur_period_val = Money(150, <<>>)
  /\ statement_data[KeyB].cur_period_val = Money(300, <<"5">>)

\* the two-digit strings of the month lexicon
MonthValues == {Months[k].value : k \in 1..Len(Months)}

\* text has the form YYYY-MM-DD: four digits, a month of the lexicon, two
\* digits
IsIsoDate(text) ==
  /\ Len(text) = 10
  /\ \A k \in {1, 2, 3, 4, 9, 10} : IsDigit(text[k])
  /\ text[5] = "-" /\ text[8] = "-"
  /\ SubSeq(text, 6, 7) \in MonthValues

\* C12: date format: every date that is set in a result of either extractor
\* has the form YYYY-MM-DD, with a numeric year, a two-digit month of the
\* lexicon and a two-digit numeric day.
DateFormat ==
  pc = "done" =>
     \A k \in DOMAIN statement_data :
        statement_data[k].date # None => IsIsoDate(statement_data[k].date[1])

\* a slot of a record that exists changes in the step
RecordWritten ==
  \E k \in DOMAIN statement_data : statement_data'[k] # statement_data[k]

\* a valid chase scope anchor stands at or before the current word of the
\* current page
ChaseAnchorSeen == \E k \in 1..i : ScopeKeyAt(ret, k) # None

\* the word is a schwab account number: it starts with a digit and holds
\* eight digits
IsSchwabAnchor(word) ==
  Len(word) > 0 /\ IsDigit(word[1]) /\ DigitCount(word) = 8

SchwabAnchorSeen == \E k \in 1..i : IsSchwabAnchor(ret[k])

\* C13 as stated: scope ends at the page end in both extractors: on every
\* page no field is written to any record until a valid scope anchor has
\* been seen on that same page.
ScopeEndsAtPageEnd ==
  [][(AtWord /\ RecordWritten) =>
        IF Chase THEN ChaseAnchorSeen ELSE SchwabAnchorSeen]_vars

\* C13 amended: in chase_statement_extract no field is written on a page
\* until a valid scope anchor has been seen on that same page; in
\* schwab_statement_extract no field is written until the account number
\* has been found, on that page or on an earlier one.
ChaseScopeEndsAtPageEnd ==
  /\ [][(Chase /\ AtWord /\ RecordWritten) => ChaseAnchorSeen]_vars
  /\ [][(Schwab /\ AtWord /\ RecordWritten) => acc_number' # None]_vars

\* C13 witness: page 1 opened the scope of A, page 2 held TOTAL ACCOUNT
\* VALUE with its values and no anchor, and nothing was written.
ChaseScopeEndsAtPageEndWitness ==
  /\ Chase /\ AtPageEnd /\ pages = 2
  /\ ret = Total1
  /\ DOMAIN statement_data = {KeyA}
  /\ statement_data[KeyA].prev_period_val = None

\* the seven slots of a record
SlotNames == NumericSlots \cup {"date"}

\* the key of the valid scope anchor at the current word, as a set: empty
\* when the word is no valid anchor
KeyHere ==
  IF ScopeKeyAt(ret, i) = None THEN {} ELSE {ScopeKeyAt(ret, i)[1]}

\* C14: record registry invariant of chase_statement_extract: every record
\* has exactly the seven slots; no record is ever removed; the records are
\* those of the valid keys seen (the step of a valid anchor adds the record
\* of its key when there is none, no other step adds one); and the anchor of
\* a key that has a record leaves the slot values of that record unchanged.
RegistryInvariant ==
  /\ [](Chase => \A k \in DOMAIN statement_data :
                    DOMAIN statement_data[k] = SlotNames)
  /\ [][Chase => DOMAIN statement_data \subseteq DOMAIN statement_data']_vars
  /\ [][(Chase /\ AtWord) =>
          DOMAIN statement_data' = DOMAIN statement_data \cup KeyHere]_vars
  /\ [][(Chase /\ ~AtWord) =>
          DOMAIN statement_data' = DOMAIN statement_data]_vars
  /\ [][(Chase /\ AtWord) =>
          \A k \in KeyHere \cap DOMAIN statement_data :
             statement_data'[k] = statement_data[k]]_vars

\* C14 witness: the anchor of A was seen again behind the values of A, and
\* the record of A still holds them.
RegistryInvariantWitness ==
  /\ Chase /\ OnePageScanned
  /\ ret = ScopeA \o Total1 \o ScopeA
  /\ DOMAIN statement_data = {KeyA}
  /\ statement_data[KeyA].prev_period_val = Money(100, <<>>)
  /\ statement_data[KeyA].cur_period_val = Money(150, <<>>)

\* C15: monotonic slot-set, both extractors: a slot that holds a value holds
\* a value after every later step (its record is still there and the slot
\* is not Unset), whatever words and pages follow.
MonotonicSlotSet ==
  [][\A k \in DOMAIN statement_data : \A sl \in SlotNames :
        statement_data[k][sl] # None =>
           /\ k \in DOMAIN statement_data'
           /\ statement_data'[k][sl] # None]_vars

\* C15 witness: page 1 set the values of A, page 2 held a candidate for the
\* same field that failed (N/A), and the slot still holds its value.
MonotonicSlotSetWitness ==
  /\ Chase /\ AtPageEnd /\ pages = 2
  /\ ret = ScopeA \o TotalNA
  /\ statement_data[KeyA].prev_period_val = Money(12345, <<"6", "7">>)
  /\ statement_data[KeyA].cur_period_val = Money(150, <<>>)

\* the anchors of the numeric fields of chase
IsNumericAnchor(text) == text \in {W_TOTAL, W_ShortTerm, W_LongTerm}

\* how far behind its anchor the first value of a field stands (the second
\* stands next to it), and the two slots of the field
ValueOffset(text) == IF text = W_TOTAL THEN 3 ELSE 5

FieldSlots(text) ==
  CASE text = W_TOTAL -> <<"prev_period_val", "cur_period_val">>
    [] text = W_ShortTerm -> <<"short_net", "short_net_YTD">>
    [] OTHER -> <<"long_net", "long_net_YTD">>

\* the number a value word spells, the word optionally prefixed by $
Amount(word) ==
  ParseFloat(IF Len(word) > 0 /\ word[1] = "$" THEN Tail(word) ELSE word)

\* a well-formed match at place j of page r: the anchor of a numeric field,
\* its literals behind it, and two numeric words at the places of the values
WellFormedAt(r, j) ==
  /\ IsNumericAnchor(r[j])
  /\ ~ContextMissing(r, j)
  /\ j + ValueOffset(r[j]) + 1 <= Len(r)
  /\ Amount(r[j + ValueOffset(r[j])]) # None
  /\ Amount(r[j + ValueOffset(r[j]) + 1]) # None

\* place j of page r lies in the scope of account k: the last anchor at or
\* before j is a valid anchor of k
InScopeOf(r, j, k) ==
  LastAnchorAt(r, j) > 0 /\ ScopeKeyAt(r, LastAnchorAt(r, j)) = Some(k)

\* C16: later-page eligibility in chase_statement_extract: on a later page,
\* a well-formed match inside the scope of account K for a field whose
\* slots are still Unset sets those slots to its values.
LaterPageEligibility ==
  [][(Chase /\ AtWord /\ pages >= 2 /\ WellFormedAt(ret, i)) =>
        \A k \in DOMAIN statement_data :
           (/\ InScopeOf(ret, i, k)
            /\ statement_data[k][FieldSlots(ret[i])[1]] = None
            /\ statement_data[k][FieldSlots(ret[i])[2]] = None)
           => /\ statement_data'[k][FieldSlots(ret[i])[1]]
                   = Amount(ret[i + ValueOffset(ret[i])])
              /\ statement_data'[k][FieldSlots(ret[i])[2]]
                   = Amount(ret[i + ValueOffset(ret[i]) + 1])]_vars

\* C17: unowned fields are dropped: in chase_statement_extract the step of
\* a word with no valid scope anchor at or before it on the page creates no
\* record, writes no slot and resolves no date; in schwab_statement_extract
\* the step of a word that is no account number, while no account number
\* has been found, creates no record and writes no slot.
UnownedFieldsDropped ==
  /\ [][(Chase /\ AtWord /\ ~ChaseAnchorSeen) =>
          statement_data' = statement_data /\ date' = date]_vars
  /\ [][(Schwab /\ AtWord /\ acc_number = None /\ ~IsSchwabAnchor(ret[i])) =>
          statement_data' = statement_data]_vars

\* C17 witness: TOTAL ACCOUNT VALUE with its values stood before the anchor
\* of A on the page, and the record of A holds none of them.
UnownedFieldsDroppedWitness ==
  /\ Chase /\ OnePageScanned
  /\ ret = Total1 \o ScopeA
  /\ DOMAIN statement_data = {KeyA}
  /\ statement_data[KeyA].prev_period_val = None
  /\ statement_data[KeyA].cur_period_val = None

\* the places of page r where the consecutive words TOTAL ACCOUNT VALUE
\* stand
TotalPlaces(r) ==
  {j \in 1..Len(r) :
     /\ r[j] = W_TOTAL /\ j + 2 <= Len(r)
     /\ r[j + 1] = W_ACCOUNT /\ r[j + 2] = W_VALUE}

\* the first of them, 0 when there is none
FirstTotalAt(r) ==
  IF TotalPlaces(r) = {} THEN 0
  ELSE CHOOSE j \in TotalPlaces(r) : \A m \in TotalPlaces(r) : j <= m

\* the current page has been scanned to its end (the function may have
\* returned behind it)
PageScanned == pages >= 1 /\ (AtPageEnd \/ pc = "done")

IsScopeToken(word) ==
  IF Chase THEN Contains(W_Acct, word) ELSE DigitCount(word) = 8

\* C19: empty result: while no word matching the account-scope detection has
\* been read, the step of a word that does not match it keeps the mapping
\* empty and raises nothing, and the return gives the empty mapping; so a
\* document without such a word yields an empty mapping and no exception.
EmptyResult ==
  [][/\ (AtWord /\ statement_data = <<>> /\ ~IsScopeToken(ret[i])) =>
          statement_data' = <<>> /\ pc' = "scan"
     /\ (AtPageEnd /\ statement_data = <<>> /\ pc' = "done") =>
          statement_data' = <<>>]_vars

\* C24: paired slots are written together: in every state of a run and in
\* the result, prev_period_val and cur_period_val of a record are both set
\* or both unset, and so are short_net with short_net_YTD and long_net with
\* long_net_YTD; in a schwab record the four gain slots are set together.
PairedSlots ==
  \A k \in DOMAIN statement_data :
    LET rec == statement_data[k]
        unset(sl) == rec[sl] = None
    IN /\ unset("prev_period_val") <=> unset("cur_period_val")
       /\ unset("short_net") <=> unset("short_net_YTD")
       /\ unset("long_net") <=> unset("long_net_YTD")
       /\ Schwab => (unset("short_net") <=> unset("long_net"))

\* C25: lookahead stays inside the scope: whenever the step of a field
\* anchor of chase_statement_extract writes a value into a record, the word
\* the value is taken from lies on the page, and no valid scope anchor
\* stands between the field anchor and that word (the word included).
LookaheadInScope ==
  [][(Chase /\ AtWord /\ IsNumericAnchor(ret[i])) =>
       \A n \in 0..1 :
         LET sl == FieldSlots(ret[i])[n + 1]
             place == i + ValueOffset(ret[i]) + n
         IN \A k \in DOMAIN statement_data' :
              statement_data'[k][sl] # SlotBefore(k, sl) =>
                /\ place <= Len(ret)
                /\ \A m \in (i + 1)..place : ScopeKeyAt(ret, m) = None]_vars

\* C26: account key validity: every key of the mapping either extractor
\* returns is a non-empty string of at most four characters, all of them
\* decimal digits.
KeyValidity ==
  pc = "done" =>
    \A k \in DOMAIN statement_data : Len(k) \in 1..4 /\ AllDigits(k)

\* the same for the keys of chase_statement_extract alone
ChaseKeyValidity == Chase => KeyValidity

\* the same for the keys of schwab_statement_extract alone
SchwabKeyValidity == Schwab => KeyValidity

\* C27: single account for schwab: the mapping of schwab_statement_extract
\* holds at most one record at any time; it gets its record in the step of
\* the first word that starts with a digit and holds exactly eight digits,
\* under the last four characters of that word, and in no other step; once
\* the record is there, no step changes the key or takes back a slot.
SingleAccount ==
  /\ [](Schwab => Cardinality(DOMAIN statement_data) <= 1)
  /\ [][(Schwab /\ statement_data = <<>>) =>
          IF AtWord /\ IsSchwabAnchor(ret[i])
          THEN /\ DOMAIN statement_data' = {LastChars(ret[i], 4)}
               /\ acc_number' = Some(LastChars(ret[i], 4))
          ELSE statement_data' = <<>>]_vars
  /\ [][(Schwab /\ statement_data # <<>>) =>
          /\ DOMAIN statement_data' = DOMAIN statement_data
          /\ acc_number' = acc_number
          /\ \A k \in DOMAIN statement_data : \A sl \in SlotNames :
               statement_data[k][sl] # None => statement_data'[k][sl] # None]_vars

\* C27 witness: the page held the account number 1234-5678, a date and then
\* the account number 8765-4321; the result is the one record 5678 with its
\* date.
SingleAccountWitness ==
  /\ Schwab /\ pc = "done"
  /\ ret = SAcct1 \o SDate1 \o SAcct2
  /\ DOMAIN statement_data = {SKey1}
  /\ statement_data[SKey1].date # None

\* C23: insert_raw_transactions is all-or-nothing: of a file whose insertion
\* ran into a sqlite error, the tables never hold a committed row, neither
\* when the call returns nor after a later commit on the connection; of a
\* file inserted without an error, raw_transactions holds every row.
AllOrNothing ==
  \A n \in 1..Len(csv_files) :
    /\ csv_files[n].outcome = "error" =>
         /\ \A row \in raw_transactions : row.file # n
         /\ \A pair \in cusip_ticker : pair.file # n
    /\ csv_files[n].outcome = "committed" =>
         \A line \in 1..Len(csv_files[n].rows) :
           \E row \in raw_transactions : row.file = n /\ row.line = line

\* the last call was login and ended on the summary page: directly, or
\* after the TOTP code was entered and accepted
SummaryReached ==
  /\ calls > 0 /\ call.op = "login"
  /\ \/ call.browser.reach = "summary"
     \/ /\ call.browser.reach = "login" /\ call.browser.widget
        /\ TotpSecret(call.arguments) # None /\ call.browser.totp_field
        /\ call.arguments.save_device => call.browser.box_checked
        /\ call.browser.finished

\* the last call was login and ended with the text message asked for
TextCodeNeeded ==
  /\ calls > 0 /\ call.op = "login"
  /\ call.browser.reach = "login" /\ call.browser.widget
  /\ ~(TotpSecret(call.arguments) # None /\ call.browser.totp_field)
  /\ ~call.browser.authenticator_text
  /\ call.browser.try_another => call.browser.box_checked
  /\ call.browser.finished

\* C22: FidelityAutomation.login never raises and returns (True, True)
\* whenever the summary page is reached (directly or after the TOTP code),
\* (True, False) when the code by text message is still needed, and
\* (False, False) otherwise.
LoginOutcomes ==
  (calls > 0 /\ call.op = "login") =>
    /\ raised = None
    /\ returned =
         IF SummaryReached THEN <<TRUE, TRUE>>
         ELSE IF TextCodeNeeded THEN <<TRUE, FALSE>>
         ELSE <<FALSE, FALSE>>

\* the rows of a positions file that count: those before the disclaimer
\* that are not passed over
RECURSIVE Included(_, _)
Included(rows, j) ==
  IF j > Len(rows) \/ IsDisclaimer(rows[j]) THEN <<>>
  ELSE IF PassedOver(rows[j]) THEN Included(rows, j + 1)
  ELSE <<rows[j]>> \o Included(rows, j + 1)

RECURSIVE SumOfValues(_)
SumOfValues(rows) ==
  IF Len(rows) = 0 THEN 0
  ELSE Float(PositionValue(Head(rows)))[1].int + SumOfValues(Tail(rows))

\* the mapping of a positions file: each account's balance is the sum of
\* the values of its included rows, its stocks hold each included row once
MappingOf(positions) ==
  LET rows == Included(positions, 1)
      of(account) == SelectSeq(rows, LAMBDA row : row.account_number = account)
  IN [account \in {rows[j].account_number : j \in 1..Len(rows)} |->
        [balance |-> [neg |-> FALSE, int |-> SumOfValues(of(account)), frac |-> <<>>],
         type |-> of(account)[1].account_name,
         stocks |-> [j \in 1..Len(of(account)) |-> Stock(of(account)[j])]]]

\* every included row of the file holds a number (or n/a) as its value
AllNumbers(positions) ==
  \A j \in 1..Len(Included(positions, 1)) :
    Float(PositionValue(Included(positions, 1)[j])) # None

\* C28: getAccountInfo is repeatable: every call on the object, the first
\* and each later one with the same positions file, returns the mapping of
\* that file: each account's balance the sum of the values of its included
\* rows, its stocks holding each included row once.
Repeatable ==
  (calls > 0 /\ call.op = "getAccountInfo" /\ AllNumbers(call.positions)) =>
    returned = MappingOf(call.positions)

\* the same for the first call on the object alone
FirstCallMapping == calls = 1 => Repeatable

\* a step that is a call of open_account
OpenAccountCalled == calls' = calls + 1 /\ call'.op = "open_account"

\* C29: open_account starts a funding transfer only towards an account
\* number obtained in that same call: a transfer started by a call goes to
\* the number that call found in the message center, and a call whose type
\* is neither roth nor brokerage starts no transfer and returns
\* (False, None), whatever calls came before.
OnlyFreshTransfers ==
  [][OpenAccountCalled =>
       /\ transfers' # transfers =>
            /\ Opens(call'.arguments)
            /\ Some(transfers'[Len(transfers')].to) =
                 NumberFound(call'.arguments, call'.browser)
       /\ ~Opens(call'.arguments) =>
            /\ transfers' = transfers
            /\ raised' = None
            /\ returned' = <<FALSE, None>>]_vars

\* the same for calls on an object that holds no account number yet
FirstOpening ==
  [][(OpenAccountCalled /\ new_account_number = None) =>
       /\ transfers' # transfers =>
            /\ Opens(call'.arguments)
            /\ Some(transfers'[Len(transfers')].to) =
                 NumberFound(call'.arguments, call'.browser)
       /\ ~Opens(call'.arguments) =>
            /\ transfers' = transfers
            /\ raised' = None
            /\ returned' = <<FALSE, None>>]_vars

====
